---- MODULE Spec2Model ----
(***************************************************************************)
(* Model of repomate's command line layer (src/repomate/cli.py):           *)
(* parse_args, dispatch_command and their helpers.                         *)
(*                                                                         *)
(* Encoding.  An optional Python value is a sequence of length 0 or 1:     *)
(* <<>> is None and <<v>> is the value v.  Text (file contents, student    *)
(* names) is a sequence of one-character strings.  A list is a sequence.   *)
(***************************************************************************)
EXTENDS Naturals, Sequences, FiniteSets, TLC

VARIABLES
    pc,          \* position of the invocation
    argv,        \* the command line: subcommand and the flags given
    defaults,    \* config.get_configured_defaults()
    fs,          \* the students file on disk: None, or Some(text)
    gitRepos,    \* the names at which util.is_git_repo finds a repository
    args,        \* the argparse namespace
    api,         \* the GitHubAPI handle: None, or Some("api")
    masters,     \* master_urls and master_names of parse_args
    bundle,      \* the tuples.Args handed to dispatch_command
    trace,       \* the collaborators called so far, in order
    urlRequest,  \* the arguments of the api.get_repo_urls calls, in order
    extracted,   \* the outcome of _extract_students, once it has run
    invoked,     \* the operations dispatch_command has called
    opRaised,    \* what the called operation raised
    logged,      \* the LOGGER.error lines
    exitStatus,  \* the status of a SystemExit
    propagated   \* the exception that left the invocation

vars == <<pc, argv, defaults, fs, gitRepos, args, api, masters, bundle,
          trace, urlRequest, extracted, invoked, opRaised, logged,
          exitStatus, propagated>>

(* ------------------------------ bounds --------------------------------- *)

\* longest students file of the invocation model
MaxFileLen == 1
\* longest students file of the extractor model
MaxTextLen == 6
\* longest list of master repository names on the command line
MaxNames == 2

(* --------------------------- program constants ------------------------- *)

SETUP_PARSER == "setup"
UPDATE_PARSER == "update"
CLONE_PARSER == "clone"
MIGRATE_PARSER == "migrate"
ADD_TO_TEAMS_PARSER == "add-to-teams"
OPEN_ISSUE_PARSER == "open-issue"
CLOSE_ISSUE_PARSER == "close-issue"
VERIFY_PARSER == "verify-settings"

Subparsers ==
    {SETUP_PARSER, UPDATE_PARSER, CLONE_PARSER, MIGRATE_PARSER,
     ADD_TO_TEAMS_PARSER, OPEN_ISSUE_PARSER, CLOSE_ISSUE_PARSER, VERIFY_PARSER}

\* os.linesep on the POSIX platforms the tool runs on
LineSep == "\n"

\* the characters str.strip() removes
Whitespace == {" ", "\n"}

None == <<>>

Some(v) == <<v>>

(* ------------------------------- text ---------------------------------- *)

RECURSIVE Split(_)
\* str.split(os.linesep): the pieces between separators, empty pieces kept
Split(text) ==
    IF \A i \in 1..Len(text) : text[i] /= LineSep
    THEN <<text>>
    ELSE LET i == CHOOSE k \in 1..Len(text) :
                      /\ text[k] = LineSep
                      /\ \A j \in 1..(k - 1) : text[j] /= LineSep
         IN  <<SubSeq(text, 1, i - 1)>> \o Split(SubSeq(text, i + 1, Len(text)))

RECURSIVE LStrip(_)
LStrip(s) ==
    IF s /= <<>> /\ Head(s) \in Whitespace THEN LStrip(Tail(s)) ELSE s

RECURSIVE RStrip(_)
RStrip(s) ==
    IF s /= <<>> /\ s[Len(s)] \in Whitespace
    THEN RStrip(SubSeq(s, 1, Len(s) - 1))
    ELSE s

\* str.strip()
Strip(s) == RStrip(LStrip(s))

\* [student.strip() for student in lines]
StripEach(lines) == [i \in DOMAIN lines |-> Strip(lines[i])]

RECURSIVE SkipEmpty(_)
\* [student for student in lines if student]
SkipEmpty(lines) ==
    IF lines = <<>> THEN <<>>
    ELSE (IF Head(lines) /= <<>> THEN <<Head(lines)>> ELSE <<>>)
         \o SkipEmpty(Tail(lines))

\* Python truthiness of an optional list: not None and not empty
Truthy(opt) == opt /= None /\ opt[1] /= <<>>

\* Python truthiness of an optional string: not None and not ""
TruthyStr(opt) == opt /= None /\ opt[1] /= ""

(* ------------------------ _extract_students ---------------------------- *)

\* the list comprehension of lines 431-435: the filter is applied to the
\* raw line, the strip to the lines that passed it
ReadStudents(text) == StripEach(SkipEmpty(Split(text)))

\* a variant that lets a missing or empty file through
extract_students_unchecked(a, file) ==
    IF "students" \in a.attrs /\ Truthy(a.students)
    THEN [exc |-> None, value |-> a.students]
    ELSE IF "students_file" \in a.attrs /\ TruthyStr(a.students_file)
    THEN [exc |-> None,
          value |-> Some(IF file = None THEN <<>> ELSE ReadStudents(file[1]))]
    ELSE [exc |-> None, value |-> None]

\* _extract_students(args); file is the state of the path on disk:
\* None when nothing is there, Some(text) for a regular file
extract_students(a, file) ==
    IF "students" \in a.attrs /\ Truthy(a.students)
    THEN [exc |-> None, value |-> a.students]
    ELSE IF "students_file" \in a.attrs /\ TruthyStr(a.students_file)
    THEN IF file = None
         THEN [exc |-> Some("FileError"), value |-> None]
         ELSE IF Len(file[1]) = 0
         THEN [exc |-> Some("FileError"), value |-> None]
         ELSE [exc |-> None, value |-> Some(ReadStudents(file[1]))]
    ELSE [exc |-> None, value |-> None]

(* ---------------------- _create_base_parsers --------------------------- *)

ConfigNames == {"org_name", "github_base_url", "user", "students_file"}

\* default = lambda arg_name: ... (line 332)
default(arg_name, configured_defaults) == configured_defaults[arg_name]

\* a variant under which every flag stays mandatory
is_required_always(arg_name, configured_defaults) == TRUE

\* is_required = lambda arg_name: ... (line 333)
is_required(arg_name, configured_defaults) ==
    configured_defaults[arg_name] = None

(* --------------------------- _add_subparsers --------------------------- *)

BaseDests == {"org_name", "github_base_url"}
StudentDests == {"students_file", "students"}
UserDests == {"user"}
RepoNameDests == BaseDests \cup {"master_repo_names"}

\* the destinations each subcommand's parser defines (its parents' and its own)
Dests(sub) ==
    CASE sub = SETUP_PARSER -> UserDests \cup StudentDests \cup RepoNameDests
      [] sub = UPDATE_PARSER ->
             UserDests \cup StudentDests \cup RepoNameDests \cup {"issue"}
      [] sub = MIGRATE_PARSER ->
             BaseDests \cup UserDests
             \cup {"master_repo_urls", "master_repo_names"}
      [] sub = CLONE_PARSER -> StudentDests \cup RepoNameDests
      [] sub = ADD_TO_TEAMS_PARSER -> StudentDests \cup BaseDests
      [] sub = OPEN_ISSUE_PARSER ->
             StudentDests \cup RepoNameDests \cup {"issue"}
      [] sub = CLOSE_ISSUE_PARSER ->
             StudentDests \cup RepoNameDests \cup {"title_regex"}
      [] sub = VERIFY_PARSER -> BaseDests \cup UserDests
      [] OTHER -> {}

AllDests ==
    {"org_name", "github_base_url", "user", "students_file", "students",
     "master_repo_names", "master_repo_urls", "issue", "title_regex"}

\* the flags present on the command line
Given(v) == {n \in AllDests : v[n] /= None}

\* the complaints argparse exits with (status 2) for command line v
ParserErrors(v, d) ==
    LET sub == v.subparser
        dests == Dests(sub)
    IN  {n \in {"org_name", "github_base_url", "user"} \cap dests :
            is_required(n, d) /\ v[n] = None}
        \cup (IF /\ "students" \in dests
                 /\ is_required("students_file", d)
                 /\ v.students_file = None
                 /\ v.students = None
              THEN {"one of -sf -s is required"} ELSE {})
        \cup (IF /\ "students" \in dests
                 /\ v.students_file /= None
                 /\ v.students /= None
              THEN {"-s not allowed with -sf"} ELSE {})
        \cup (IF /\ "master_repo_names" \in dests
                 /\ sub /= MIGRATE_PARSER
                 /\ v.master_repo_names = None
              THEN {"master_repo_names"} ELSE {})
        \cup (IF /\ sub = MIGRATE_PARSER
                 /\ v.master_repo_urls = None
                 /\ v.master_repo_names = None
              THEN {"one of -mu -mn is required"} ELSE {})
        \cup (IF /\ sub = MIGRATE_PARSER
                 /\ v.master_repo_urls /= None
                 /\ v.master_repo_names /= None
              THEN {"-mn not allowed with -mu"} ELSE {})
        \cup (IF sub = OPEN_ISSUE_PARSER /\ v.issue = None
              THEN {"issue"} ELSE {})
        \cup (IF sub = CLOSE_ISSUE_PARSER /\ v.title_regex = None
              THEN {"title_regex"} ELSE {})
        \cup (IF Given(v) \subseteq dests
              THEN {} ELSE {"unrecognized arguments"})

\* the value argparse stores for a destination the subcommand defines
Stored(n, v, d) ==
    IF n \notin Dests(v.subparser) THEN None
    ELSE IF v[n] /= None THEN v[n]
    ELSE IF n \in ConfigNames THEN default(n, d)
    ELSE None

\* parser.parse_args(sys_args) for an accepted command line
Namespace(v, d) ==
    [attrs |-> Dests(v.subparser) \cup {"subparser"},
     subparser |-> v.subparser,
     org_name |-> Stored("org_name", v, d),
     github_base_url |-> Stored("github_base_url", v, d),
     user |-> Stored("user", v, d),
     students_file |-> Stored("students_file", v, d),
     students |-> Stored("students", v, d),
     master_repo_names |-> Stored("master_repo_names", v, d),
     master_repo_urls |-> Stored("master_repo_urls", v, d),
     issue |-> Stored("issue", v, d),
     title_regex |-> Stored("title_regex", v, d)]

NoArgs ==
    [attrs |-> {}, subparser |-> "", org_name |-> None,
     github_base_url |-> None, user |-> None, students_file |-> None,
     students |-> None, master_repo_names |-> None,
     master_repo_urls |-> None, issue |-> None, title_regex |-> None]

(* ------------------------------ exceptions ----------------------------- *)

\* the failures a collaborator may raise; ValueError stands for every type
\* outside the package's own hierarchy
ExceptionKinds ==
    {"ParseError", "FileError", "NotFoundError", "PushFailedError",
     "CloneFailedError", "GitError", "APIError", "ValueError"}

\* the classes a failure is an instance of: push and clone failures are git
\* failures, a not-found failure is an API failure
Classes(kind) ==
    {kind}
    \cup (IF kind \in {"PushFailedError", "CloneFailedError"}
          THEN {"GitError"} ELSE {})
    \cup (IF kind = "NotFoundError" THEN {"APIError"} ELSE {})

IsInstance(kind, class) == class \in Classes(kind)

\* the except clauses of _sys_exit_on_expected_error, in order
ExceptClauses ==
    <<"PushFailedError", "CloneFailedError", "GitError", "APIError">>

Outcome(lines, status, exc) ==
    [logged |-> lines, exit |-> status, propagated |-> exc]

\* a variant that has lost its last except clause
sys_exit_without_api_clause(raised) ==
    IF raised = None THEN Outcome(<<>>, None, None)
    ELSE LET hit == {i \in 1..3 : IsInstance(raised[1], ExceptClauses[i])}
         IN  IF hit = {} THEN Outcome(<<>>, None, raised)
             ELSE Outcome(<<ExceptClauses[CHOOSE i \in hit :
                                \A j \in hit : i <= j]>>, Some(1), None)

\* a variant that ends in a bare except clause
sys_exit_on_any_error(raised) ==
    IF raised = None THEN Outcome(<<>>, None, None)
    ELSE LET hit == {i \in DOMAIN ExceptClauses :
                        IsInstance(raised[1], ExceptClauses[i])}
         IN  IF hit = {} THEN Outcome(<<"Exception">>, Some(1), None)
             ELSE Outcome(<<ExceptClauses[CHOOSE i \in hit :
                                \A j \in hit : i <= j]>>, Some(1), None)

\* _sys_exit_on_expected_error around a body that raised `raised` (None:
\* the body returned); the first matching clause logs one line, named here
\* after the clause, and exits with status 1
sys_exit_on_expected_error(raised) ==
    IF raised = None THEN Outcome(<<>>, None, None)
    ELSE LET hit == {i \in DOMAIN ExceptClauses :
                        IsInstance(raised[1], ExceptClauses[i])}
         IN  IF hit = {} THEN Outcome(<<>>, None, raised)
             ELSE Outcome(<<ExceptClauses[CHOOSE i \in hit :
                                \A j \in hit : i <= j]>>, Some(1), None)

(* ------------------------- _repo_names_to_urls ------------------------- *)

RepoNames == {"r1", "r2"}

\* api.get_repo_urls(names): one URL of the expected shape per name
get_repo_urls(names) ==
    [i \in DOMAIN names |-> [scheme |-> "https", name |-> names[i]]]

\* pathlib.Path(os.path.abspath(repo_name)).as_uri()
as_uri(repo_name) == [scheme |-> "file", name |-> repo_name]

\* util.repo_name(url)
repo_name(url) == url.name

RECURSIVE Local(_, _)
\* [name for name in repo_names if util.is_git_repo(os.path.abspath(name))]
Local(repo_names, repos) ==
    IF repo_names = <<>> THEN <<>>
    ELSE (IF Head(repo_names) \in repos THEN <<Head(repo_names)>> ELSE <<>>)
         \o Local(Tail(repo_names), repos)

RECURSIVE NonLocal(_, _)
\* [name for name in repo_names if name not in local]
NonLocal(repo_names, local) ==
    IF repo_names = <<>> THEN <<>>
    ELSE (IF \A i \in DOMAIN local : local[i] /= Head(repo_names)
          THEN <<Head(repo_names)>> ELSE <<>>)
         \o NonLocal(Tail(repo_names), local)

\* the file URIs of lines 478-481
local_uris(local) == [i \in DOMAIN local |-> as_uri(local[i])]

\* a variant that concatenates the two partitions the other way round
repo_names_to_urls_local_first(repo_names, repos) ==
    LET local == Local(repo_names, repos)
        non_local == NonLocal(repo_names, local)
    IN  [request |-> non_local,
         urls |-> local_uris(local) \o get_repo_urls(non_local)]

\* _repo_names_to_urls(repo_names, api); repos is the set of names at which
\* util.is_git_repo finds a repository.  request is the argument of the one
\* api.get_repo_urls call
repo_names_to_urls(repo_names, repos) ==
    LET local == Local(repo_names, repos)
        non_local == NonLocal(repo_names, local)
    IN  [request |-> non_local,
         urls |-> get_repo_urls(non_local) \o local_uris(local)]

(* ------------------------------ parse_args ----------------------------- *)

\* a variant without the quick parse
is_quick_parse_never(a) == FALSE

\* line 70: the quick parse for verify-settings
is_quick_parse(a) == a.subparser = VERIFY_PARSER

Args(sub, org, url, user, urls, names, students, issue, regex) ==
    [subparser |-> sub, org_name |-> org, github_base_url |-> url,
     user |-> user, master_repo_urls |-> urls, master_repo_names |-> names,
     students |-> students, issue |-> issue, title_regex |-> regex]

\* lines 72-77: the fields not named keep the tuple's default, None
quick_args(a) ==
    Args(VERIFY_PARSER, a.org_name, a.github_base_url, a.user,
         None, None, None, None, None)

\* [util.repo_name(url) for url in master_urls]
repo_names_of(urls) == [i \in DOMAIN urls |-> repo_name(urls[i])]

\* a variant that gives add-to-teams empty lists
master_repos_empty_lists(a, repos) ==
    IF a.subparser = ADD_TO_TEAMS_PARSER
    THEN [urls |-> Some(<<>>), names |-> Some(<<>>), request |-> None,
          exc |-> None]
    ELSE IF "master_repo_urls" \in a.attrs /\ Truthy(a.master_repo_urls)
    THEN [urls |-> a.master_repo_urls,
          names |-> Some(repo_names_of(a.master_repo_urls[1])),
          request |-> None, exc |-> None]
    ELSE IF "master_repo_names" \notin a.attrs
    THEN [urls |-> None, names |-> None, request |-> None,
          exc |-> Some("AttributeError")]
    ELSE IF a.master_repo_names = None
    THEN [urls |-> None, names |-> None, request |-> None,
          exc |-> Some("TypeError")]
    ELSE LET r == repo_names_to_urls(a.master_repo_names[1], repos)
         IN  [urls |-> Some(r.urls), names |-> a.master_repo_names,
              request |-> Some(r.request),
              exc |-> IF Truthy(Some(r.urls)) /\ Truthy(a.master_repo_names)
                      THEN None ELSE Some("AssertionError")]

\* lines 84-95: the master repository URLs and names of the bundle, the
\* get_repo_urls request made on the way, and the outcome of the assert
master_repos(a, repos) ==
    IF a.subparser = ADD_TO_TEAMS_PARSER
    THEN [urls |-> None, names |-> None, request |-> None, exc |-> None]
    ELSE IF "master_repo_urls" \in a.attrs /\ Truthy(a.master_repo_urls)
    THEN LET names == Some(repo_names_of(a.master_repo_urls[1]))
         IN  [urls |-> a.master_repo_urls, names |-> names,
              request |-> None,
              exc |-> IF Truthy(a.master_repo_urls) /\ Truthy(names)
                      THEN None ELSE Some("AssertionError")]
    ELSE IF "master_repo_names" \notin a.attrs
    THEN [urls |-> None, names |-> None, request |-> None,
          exc |-> Some("AttributeError")]
    ELSE IF a.master_repo_names = None
    THEN [urls |-> None, names |-> None, request |-> None,
          exc |-> Some("TypeError")]
    ELSE LET r == repo_names_to_urls(a.master_repo_names[1], repos)
         IN  [urls |-> Some(r.urls), names |-> a.master_repo_names,
              request |-> Some(r.request),
              exc |-> IF Truthy(Some(r.urls)) /\ Truthy(a.master_repo_names)
                      THEN None ELSE Some("AssertionError")]

(* --------------------------- dispatch_command -------------------------- *)

\* a variant with two branches of the elif chain swapped
operation_for_swapped(sub) ==
    CASE sub = ADD_TO_TEAMS_PARSER -> Some("add_students_to_teams")
      [] sub = SETUP_PARSER -> Some("setup_student_repos")
      [] sub = UPDATE_PARSER -> Some("update_student_repos")
      [] sub = OPEN_ISSUE_PARSER -> Some("close_issue")
      [] sub = CLOSE_ISSUE_PARSER -> Some("open_issue")
      [] sub = MIGRATE_PARSER -> Some("migrate_repos")
      [] sub = CLONE_PARSER -> Some("clone_repos")
      [] sub = VERIFY_PARSER -> Some("verify_settings")
      [] OTHER -> None

\* the operation the elif chain of lines 122-157 reaches for a subparser
\* value; None is the final else
operation_for(sub) ==
    CASE sub = ADD_TO_TEAMS_PARSER -> Some("add_students_to_teams")
      [] sub = SETUP_PARSER -> Some("setup_student_repos")
      [] sub = UPDATE_PARSER -> Some("update_student_repos")
      [] sub = OPEN_ISSUE_PARSER -> Some("open_issue")
      [] sub = CLOSE_ISSUE_PARSER -> Some("close_issue")
      [] sub = MIGRATE_PARSER -> Some("migrate_repos")
      [] sub = CLONE_PARSER -> Some("clone_repos")
      [] sub = VERIFY_PARSER -> Some("verify_settings")
      [] OTHER -> None

\* the branches whose call sits inside `with _sys_exit_on_expected_error()`
Guarded(sub) == sub \in Subparsers \ {VERIFY_PARSER}

(* ------------------------------- inputs -------------------------------- *)

Chars == {"a", "b", " ", "\n"}

\* the characters of the students file of a whole invocation
FileChars == {"a", "\n"}

Texts(chars, n) == UNION {[1..k -> chars] : k \in 0..n}

\* the states of the students file: absent, or a regular file with a text
Files(chars, n) == {None} \cup {Some(t) : t \in Texts(chars, n)}

NameLists == UNION {[1..k -> RepoNames] : k \in 1..MaxNames}

\* the command lines: a subcommand and, among the flags its parser knows,
\* the ones given.  nargs='+' makes every list given non-empty
CommandLines ==
    {v \in [subparser : Subparsers,
            org_name : {None, Some("cli-org")},
            github_base_url : {None, Some("cli-url")},
            user : {None, Some("cli-user")},
            students_file : {None, Some(""), Some("students.txt")},
            students : {None, Some(<< <<"a", "l">> >>)},
            master_repo_names : {None} \cup {Some(l) : l \in NameLists},
            master_repo_urls :
                {None, Some(<<[scheme |-> "https", name |-> "r1"]>>)},
            issue : {None, Some("issue.md")},
            title_regex : {None, Some("regex")}] :
        Given(v) \subseteq Dests(v.subparser)}

\* the configured defaults: any subset of the four names has a value
Configs ==
    [org_name : {None, Some("cfg-org")},
     github_base_url : {None, Some("cfg-url")},
     user : {None, Some("cfg-user")},
     students_file : {None, Some("default.txt")}]

\* the configurations that set the organization, the base URL and the user
\* together or not at all
IdentityConfigs ==
    {c \in Configs : /\ (c.org_name = None) = (c.github_base_url = None)
                     /\ (c.org_name = None) = (c.user = None)}

NoArgv ==
    [subparser |-> "", org_name |-> None, github_base_url |-> None,
     user |-> None, students_file |-> None, students |-> None,
     master_repo_names |-> None, master_repo_urls |-> None,
     issue |-> None, title_regex |-> None]

NoConfig ==
    [org_name |-> None, github_base_url |-> None, user |-> None,
     students_file |-> None]

NoMasters == [urls |-> None, names |-> None, request |-> None, exc |-> None]

Fresh ==
    /\ args = NoArgs
    /\ api = None
    /\ masters = NoMasters
    /\ bundle = None
    /\ trace = <<>>
    /\ urlRequest = <<>>
    /\ extracted = None
    /\ invoked = <<>>
    /\ opRaised = None
    /\ logged = <<>>
    /\ exitStatus = None
    /\ propagated = None

\* an invocation from the command line; the file and the local repositories
\* vary where the invocation can look at them
InitCommandLine ==
    /\ pc = "RAW_ARGS"
    /\ argv \in CommandLines
    /\ defaults \in IdentityConfigs
    /\ fs \in IF "students" \in Dests(argv.subparser) /\ argv.students = None
              THEN Files(FileChars, MaxFileLen) ELSE {None}
    /\ gitRepos \in IF /\ argv.master_repo_names /= None
                       /\ argv.master_repo_urls = None
                    THEN SUBSET RepoNames ELSE {{}}
    /\ Fresh

\* dispatch_command called with a bundle built by a caller other than
\* parse_args: the subparser field is any string
InitBundle ==
    /\ pc = "RESOLVED"
    /\ argv = NoArgv
    /\ defaults = NoConfig
    /\ fs = None
    /\ gitRepos = {}
    /\ args = NoArgs
    /\ api = Some("api")
    /\ masters = NoMasters
    /\ \E sub \in Subparsers \cup {"unknown"} :
          \E students \in {None, Some(<<>>), Some(<< <<"a", "l">> >>)} :
             bundle = Some(Args(sub, Some("org"), Some("url"), Some("user"),
                                Some(<<as_uri("r1")>>), Some(<<"r1">>),
                                students, None, None))
    /\ trace = <<>>
    /\ urlRequest = <<>>
    /\ extracted = None
    /\ invoked = <<>>
    /\ opRaised = None
    /\ logged = <<>>
    /\ exitStatus = None
    /\ propagated = None

Init == InitCommandLine \/ InitBundle

(* ------------------------------- actions ------------------------------- *)

\* lines 67-68: build the parser and parse; argparse exits with status 2
\* on a command line it rejects
ParseCommandLine ==
    /\ pc = "RAW_ARGS"
    /\ IF ParserErrors(argv, defaults) = {}
       THEN /\ args' = Namespace(argv, defaults)
            /\ pc' = "PARSED"
            /\ exitStatus' = exitStatus
       ELSE /\ args' = args
            /\ pc' = "DONE"
            /\ exitStatus' = Some(2)
    /\ UNCHANGED <<argv, defaults, fs, gitRepos, api, masters, bundle, trace,
                   urlRequest, extracted, invoked, opRaised, logged,
                   propagated>>

\* lines 70-77: verify-settings returns at once, with no API handle
QuickParse ==
    /\ pc = "PARSED"
    /\ is_quick_parse(args)
    /\ bundle' = Some(quick_args(args))
    /\ api' = None
    /\ pc' = "RESOLVED"
    /\ UNCHANGED <<argv, defaults, fs, gitRepos, args, masters, trace,
                   urlRequest, extracted, invoked, opRaised, logged,
                   exitStatus, propagated>>

\* what github_api.GitHubAPI(...) may do: return, or raise
ConnectOutcomes == {None, Some("NotFoundError"), Some("ValueError")}

\* lines 78-82 and _connect_to_api: the plugin hook for clone, then the
\* connection; a NotFoundError is raised again with a new message, any
\* other failure leaves as it is
ConnectToApi ==
    /\ pc = "PARSED"
    /\ ~is_quick_parse(args)
    /\ trace' = trace
                \o (IF args.subparser = CLONE_PARSER
                    THEN <<"hook.parse_args">> ELSE <<>>)
                \o <<"GitHubAPI">>
    /\ \E raised \in ConnectOutcomes :
          IF raised = None
          THEN /\ api' = Some("api")
               /\ pc' = "CONNECTED"
               /\ propagated' = propagated
          ELSE /\ api' = api
               /\ pc' = "DONE"
               /\ propagated' = raised
    /\ UNCHANGED <<argv, defaults, fs, gitRepos, args, masters, bundle,
                   urlRequest, extracted, invoked, opRaised, logged,
                   exitStatus>>

\* lines 84-95: master_urls and master_names
ResolveMasterRepos ==
    /\ pc = "CONNECTED"
    /\ LET m == master_repos(args, gitRepos)
       IN  /\ masters' = m
           /\ args' = IF args.subparser = ADD_TO_TEAMS_PARSER
                      THEN [args EXCEPT
                               !.master_repo_urls = Some(<<>>),
                               !.attrs = @ \cup {"master_repo_urls"}]
                      ELSE args
           /\ urlRequest' = IF m.request = None THEN urlRequest
                            ELSE Append(urlRequest, m.request[1])
           /\ trace' = IF m.request = None THEN trace
                       ELSE Append(trace, "get_repo_urls")
           /\ IF m.exc = None
              THEN pc' = "MASTERS" /\ propagated' = propagated
              ELSE pc' = "DONE" /\ propagated' = m.exc
    /\ UNCHANGED <<argv, defaults, fs, gitRepos, api, bundle, extracted,
                   invoked, opRaised, logged, exitStatus>>

\* lines 97-110: the fields of the bundle are evaluated in order, students
\* before issue; util.read_issue raises ValueError for a path that is no file
BuildArgs ==
    /\ pc = "MASTERS"
    /\ LET ex == extract_students(args, fs)
           wantsIssue == "issue" \in args.attrs /\ TruthyStr(args.issue)
       IN  /\ extracted' = Some(ex)
           /\ trace' = Append(trace, "_extract_students")
           /\ IF ex.exc /= None
              THEN /\ pc' = "DONE"
                   /\ propagated' = ex.exc
                   /\ bundle' = bundle
              ELSE \E readable \in BOOLEAN :
                      IF wantsIssue /\ ~readable
                      THEN /\ pc' = "DONE"
                           /\ propagated' = Some("ValueError")
                           /\ bundle' = bundle
                      ELSE /\ pc' = "RESOLVED"
                           /\ propagated' = propagated
                           /\ bundle' =
                                Some(Args(args.subparser, args.org_name,
                                          args.github_base_url,
                                          IF "user" \in args.attrs
                                          THEN args.user ELSE None,
                                          masters.urls, masters.names,
                                          ex.value,
                                          IF wantsIssue
                                          THEN Some("issue") ELSE None,
                                          IF "title_regex" \in args.attrs
                                          THEN args.title_regex ELSE None))
    /\ UNCHANGED <<argv, defaults, fs, gitRepos, args, api, masters,
                   urlRequest, invoked, opRaised, logged, exitStatus>>

\* what a command operation may do: return, or raise
OperationOutcomes == {None} \cup {Some(k) : k \in ExceptionKinds}

\* dispatch_command: the branch of the subparser value calls its operation,
\* inside _sys_exit_on_expected_error for all but verify-settings; the final
\* else raises ParseError
DispatchCommand ==
    /\ pc = "RESOLVED"
    /\ LET b == bundle[1]
           op == operation_for(b.subparser)
       IN  IF op = None
           THEN /\ invoked' = invoked
                /\ opRaised' = opRaised
                /\ logged' = logged
                /\ exitStatus' = exitStatus
                /\ propagated' = Some("ParseError")
           ELSE \E raised \in OperationOutcomes :
                   LET out == IF Guarded(b.subparser)
                              THEN sys_exit_on_expected_error(raised)
                              ELSE Outcome(<<>>, None, raised)
                   IN  /\ invoked' = Append(invoked,
                                            [op |-> op[1],
                                             students |-> b.students])
                       /\ opRaised' = raised
                       /\ logged' = logged \o out.logged
                       /\ exitStatus' = out.exit
                       /\ propagated' = out.propagated
    /\ pc' = "DONE"
    /\ UNCHANGED <<argv, defaults, fs, gitRepos, args, api, masters, bundle,
                   trace, urlRequest, extracted>>

Next ==
    \/ ParseCommandLine
    \/ QuickParse
    \/ ConnectToApi
    \/ ResolveMasterRepos
    \/ BuildArgs
    \/ DispatchCommand

Spec == Init /\ [][Next]_vars

(* ------------------- the extractor on its own -------------------------- *)

\* _extract_students called with a namespace that names a students file,
\* for every state of that file
InitExtract ==
    /\ pc = "EXTRACT"
    /\ argv = [NoArgv EXCEPT !.subparser = ADD_TO_TEAMS_PARSER,
                             !.students_file = Some("students.txt")]
    /\ defaults = NoConfig
    /\ fs \in Files(Chars, MaxTextLen)
    /\ gitRepos = {}
    /\ Fresh

ExtractStudents ==
    /\ pc = "EXTRACT"
    /\ args' = [Namespace(argv, defaults) EXCEPT !.attrs = StudentDests]
    /\ extracted' = Some(extract_students(args', fs))
    /\ trace' = Append(trace, "_extract_students")
    /\ pc' = "DONE"
    /\ UNCHANGED <<argv, defaults, fs, gitRepos, api, masters, bundle,
                   urlRequest, invoked, opRaised, logged, exitStatus,
                   propagated>>

SpecExtract == InitExtract /\ [][ExtractStudents]_vars

(* ---------------- the parser under every configuration ----------------- *)

\* every command line under every configuration, with no students file on
\* disk and no local repository
InitParser ==
    /\ pc = "RAW_ARGS"
    /\ argv \in CommandLines
    /\ defaults \in Configs
    /\ fs = None
    /\ gitRepos = {}
    /\ Fresh

SpecParser == InitParser /\ [][Next]_vars

(* ============================== properties ============================= *)

StudentSubparsers ==
    {SETUP_PARSER, UPDATE_PARSER, CLONE_PARSER, ADD_TO_TEAMS_PARSER,
     OPEN_ISSUE_PARSER, CLOSE_ISSUE_PARSER}

\* dispatch_command has run to its end
Dispatched == pc = "DONE" /\ bundle /= None

\* the operation raised a failure of kind k
Raised(k) == Dispatched /\ invoked /= <<>> /\ opRaised = Some(k)

ExitedWithOneLine ==
    exitStatus = Some(1) /\ Len(logged) = 1 /\ propagated = None

Untranslated == exitStatus = None /\ logged = <<>> /\ propagated = opRaised

UsesBadFile ==
    /\ "students_file" \in args.attrs
    /\ TruthyStr(args.students_file)
    /\ ~Truthy(args.students)
    /\ (fs = None \/ fs = Some(<<>>))

C3_VerifyShortCircuits ==
    argv.subparser = VERIFY_PARSER =>
        /\ api = None
        /\ trace = <<>>
        /\ urlRequest = <<>>
        /\ extracted = None
        /\ masters = NoMasters
        /\ bundle /= None =>
              bundle[1] =
                 Args(VERIFY_PARSER,
                      IF argv.org_name /= None
                      THEN argv.org_name ELSE defaults.org_name,
                      IF argv.github_base_url /= None
                      THEN argv.github_base_url ELSE defaults.github_base_url,
                      IF argv.user /= None THEN argv.user ELSE defaults.user,
                      None, None, None, None, None)

C3_Witness ==
    /\ argv.subparser = VERIFY_PARSER
    /\ pc = "DONE"
    /\ bundle /= None
    /\ Len(invoked) = 1
    /\ invoked[1].op = "verify_settings"

\* the lines of a text, each trimmed, the blank ones dropped, in file order
TrimmedNonBlankLines(text) == SkipEmpty(StripEach(Split(text)))

\* C4: for a non-empty students file the extracted list is the file's lines
\* in file order, each trimmed, every blank line dropped: no element is
\* empty or begins or ends with whitespace.
C4_TrimmedNonBlank ==
    (extracted /= None /\ extracted[1].exc = None /\ fs /= None) =>
        LET students == extracted[1].value[1]
        IN  /\ students = TrimmedNonBlankLines(fs[1])
            /\ \A i \in DOMAIN students :
                  /\ students[i] /= <<>>
                  /\ students[i][1] \notin Whitespace
                  /\ students[i][Len(students[i])] \notin Whitespace

\* C5: the names are split into the local ones (a git repository is found at
\* the name) and the others; the API is asked, once, for exactly the others;
\* the result is the URLs of the others followed by one file URI per local
\* name, so every remote URL precedes every local URI.
C5_RemoteThenLocal ==
    masters.request /= None =>
        LET names == args.master_repo_names[1]
            request == masters.request[1]
            urls == masters.urls[1]
            remote == {i \in DOMAIN names : names[i] \notin gitRepos}
            local == {i \in DOMAIN names : names[i] \in gitRepos}
        IN  /\ urlRequest = <<request>>
            /\ Len(request) = Cardinality(remote)
            /\ \A i \in remote :
                  request[Cardinality({j \in remote : j <= i})] = names[i]
            /\ Len(urls) = Len(names)
            /\ \A i \in remote :
                  urls[Cardinality({j \in remote : j <= i})] =
                     [scheme |-> "https", name |-> names[i]]
            /\ \A i \in local :
                  urls[Cardinality(remote)
                       + Cardinality({j \in local : j <= i})] =
                     [scheme |-> "file", name |-> names[i]]
            /\ \A i, j \in DOMAIN urls :
                  (urls[i].scheme = "https" /\ urls[j].scheme = "file")
                     => i < j

C5_Witness ==
    /\ masters.request /= None
    /\ args.master_repo_names = Some(<<"r1", "r2">>)
    /\ gitRepos = {"r1"}
    /\ masters.urls = Some(<<[scheme |-> "https", name |-> "r2"],
                             [scheme |-> "file", name |-> "r1"]>>)

\* C6: a failure raised by a command operation that is none of the
\* recognized kinds leaves dispatch_command as it was raised: nothing is
\* logged and there is no exit with status 1.
C6_OthersPropagate ==
    Raised("ValueError") =>
        /\ propagated = Some("ValueError")
        /\ logged = <<>>
        /\ exitStatus = None

C6_Witness ==
    /\ Raised("ValueError")
    /\ bundle[1].subparser = CLONE_PARSER
    /\ propagated = Some("ValueError")

\* C7: dispatch_command calls exactly one operation, the one of the bundle's
\* subcommand; for any other subparser value it calls none and raises a
\* ParseError, which leaves dispatch_command without log line or exit status.
C7_OneOperation ==
    /\ ~Dispatched => invoked = <<>>
    /\ Dispatched =>
          LET sub == bundle[1].subparser
          IN  IF sub \in Subparsers
              THEN /\ Len(invoked) = 1
                   /\ <<sub, invoked[1].op>> \in
                         {<<ADD_TO_TEAMS_PARSER, "add_students_to_teams">>,
                          <<SETUP_PARSER, "setup_student_repos">>,
                          <<UPDATE_PARSER, "update_student_repos">>,
                          <<OPEN_ISSUE_PARSER, "open_issue">>,
                          <<CLOSE_ISSUE_PARSER, "close_issue">>,
                          <<MIGRATE_PARSER, "migrate_repos">>,
                          <<CLONE_PARSER, "clone_repos">>,
                          <<VERIFY_PARSER, "verify_settings">>}
              ELSE /\ invoked = <<>>
                   /\ propagated = Some("ParseError")
                   /\ exitStatus = None
                   /\ logged = <<>>

C7_Witness ==
    /\ Dispatched
    /\ bundle[1].subparser = "unknown"
    /\ propagated = Some("ParseError")

\* C8: in a bundle returned by parse_args the master repository URLs and
\* names are both absent for add-to-teams and verify-settings and both
\* non-empty for every other subcommand, whether names or URLs were given.
C8_UrlsAndNamesTogether ==
    (bundle /= None /\ argv.subparser \in Subparsers) =>
        LET b == bundle[1]
        IN  IF b.subparser \in {ADD_TO_TEAMS_PARSER, VERIFY_PARSER}
            THEN b.master_repo_urls = None /\ b.master_repo_names = None
            ELSE /\ Truthy(b.master_repo_urls)
                 /\ Truthy(b.master_repo_names)
                 /\ Len(b.master_repo_urls[1]) = Len(b.master_repo_names[1])

C8_Witness ==
    /\ bundle /= None
    /\ argv.subparser = MIGRATE_PARSER
    /\ argv.master_repo_urls /= None
    /\ bundle[1].master_repo_names = Some(<<"r1">>)

\* the parser accepted the command line
Accepted == pc /= "RAW_ARGS" /\ args /= NoArgs

\* the parser rejected the command line
Rejected == pc = "DONE" /\ args = NoArgs /\ exitStatus = Some(2)

\* a complaint of the parser that no configured default can lift
OtherComplaint ==
    LET sub == argv.subparser
    IN  \/ sub \notin {MIGRATE_PARSER, ADD_TO_TEAMS_PARSER, VERIFY_PARSER}
           /\ argv.master_repo_names = None
        \/ sub = MIGRATE_PARSER
           /\ (argv.master_repo_names = None) = (argv.master_repo_urls = None)
        \/ argv.students /= None /\ argv.students_file /= None
        \/ sub = OPEN_ISSUE_PARSER /\ argv.issue = None
        \/ sub = CLOSE_ISSUE_PARSER /\ argv.title_regex = None

\* a flag (for the student source: both flags of the group) left out while
\* the configuration has no value for it
Unfilled(n) ==
    /\ n \in Dests(argv.subparser)
    /\ argv[n] = None
    /\ n = "students_file" => argv.students = None
    /\ defaults[n] = None

\* C9: org_name, github_base_url, user and the student source are required
\* exactly when the configuration has no value for the name; a flag with a
\* configured value may be left out and is then parsed as that value, and a
\* value on the command line takes the place of the configured one.
C9_RequiredUnlessDefaulted ==
    (argv.subparser \in Subparsers /\ pc /= "RAW_ARGS") =>
        /\ Accepted \/ Rejected
        /\ Rejected <=> (OtherComplaint \/ \E n \in ConfigNames : Unfilled(n))
        /\ Accepted =>
              \A n \in ConfigNames \cap Dests(argv.subparser) :
                 args[n] = IF argv[n] /= None THEN argv[n] ELSE defaults[n]

C9_Witness ==
    /\ Accepted
    /\ argv.subparser = SETUP_PARSER
    /\ argv.org_name = None
    /\ args.org_name = Some("cfg-org")
    /\ argv.user = Some("cli-user")
    /\ defaults.user = Some("cfg-user")
    /\ args.user = Some("cli-user")
    /\ argv.students_file = None
    /\ argv.students = None
    /\ args.students_file = Some("default.txt")

\* C10: for every subcommand that takes a student source, the students of a
\* bundle returned by parse_args are a present, non-empty list, so that no
\* operation is called with an absent or empty student list.
C10_StudentsPresent ==
    (bundle /= None /\ argv.subparser \in StudentSubparsers) =>
        /\ Truthy(bundle[1].students)
        /\ \A i \in DOMAIN invoked : Truthy(invoked[i].students)

====
